---- MODULE Spec2Model ----
(***************************************************************************)
(* Model of coder_agent/main.py: run() generates code, designs tests from  *)
(* a stub, and run_tests_and_correct() drives the mypy and unittest        *)
(* verify/repair loops.                                                    *)
(*                                                                         *)
(* Text is a sequence of tokens:                                           *)
(*   "n"  a newline                                                        *)
(*   "F"  a markdown fence ```                                             *)
(*   "S"  the separator "## Tests" (it cannot overlap itself, so           *)
(*        str.split sees it as one unit)                                   *)
(*   "c", "t"  one non-whitespace character of code / of test text         *)
(* The model keeps the text of the one file the run can still read (the    *)
(* file under verification); every write is recorded by name in `writes`.  *)
(***************************************************************************)
EXTENDS Naturals, Sequences, FiniteSets, TLC

\* ---------------------------------------------------------------- bounds
MaxRetries == 1
\* verdict histories, repair counters and write counters saturate here
HistSlack == 3
MaxHist == MaxRetries + HistSlack
\* longest text given to clean_code on its own
MaxCleanLen == 7
\* longest artifact given to the split on its own
MaxArtifactLen == 7

\* ------------------------------------------------------------ text model
Min(S) == CHOOSE x \in S : \A y \in S : x <= y
Max(S) == CHOOSE x \in S : \A y \in S : x >= y

test_code_separator == <<"S">>
Joiner == <<"n", "n">> \o test_code_separator \o <<"n", "n">>

\* code + "\n\n" + test_code_separator + "\n\n" + test_code
Join(cd, tst) == cd \o Joiner \o tst

strip_nothing(s) == s
\* str.strip()
strip(s) ==
  LET idx == {i \in 1..Len(s) : s[i] # "n"}
  IN IF idx = {} THEN <<>> ELSE SubSeq(s, Min(idx), Max(idx))

SepPositions(s) == {i \in 1..Len(s) : s[i] = "S"}

\* str.split(test_code_separator): the list of the parts between the
\* successive occurrences of the separator
split(s) ==
  LET P == SepPositions(s)
      n == Cardinality(P)
      pos(k) == IF k = 0 THEN 0
                ELSE IF k = n + 1 THEN Len(s) + 1
                ELSE CHOOSE p \in P : Cardinality({q \in P : q <= p}) = k
  IN [k \in 1..(n + 1) |-> SubSeq(s, pos(k - 1) + 1, pos(k) - 1)]

\* s contains sub as a contiguous substring
Contains(s, sub) ==
  \E i \in 0..(Len(s) - Len(sub)) : SubSeq(s, i + 1, i + Len(sub)) = sub

\* CODE_BLOCK_REGEX = ^```(python)?\s*$((.*\n)*)^```\s*$  with re.I | re.M
\* an opening fence: ``` at a line start, followed by a newline
FenceOpens(s, i) ==
  /\ s[i] = "F"
  /\ (i = 1 \/ s[i - 1] = "n")
  /\ i < Len(s)
  /\ s[i + 1] = "n"
\* a closing fence: ``` at a line start after a newline, ending its line
FenceCloses(s, q) ==
  /\ s[q] = "F"
  /\ q > 1
  /\ s[q - 1] = "n"
  /\ (q = Len(s) \/ s[q + 1] = "n")
ClosersAfter(s, i) == {q \in (i + 2)..Len(s) : FenceCloses(s, q)}
BlockStarts(s) == {i \in 1..Len(s) : FenceOpens(s, i) /\ ClosersAfter(s, i) # {}}
\* \s* is greedy but $ needs a newline ahead: group 2 starts at the last
\* newline of the run that follows the opening fence
LastNewlineOfRun(s, i) ==
  Max({j \in (i + 1)..Len(s) : \A k \in (i + 1)..j : s[k] = "n"})

clean_code(s) ==
  IF BlockStarts(s) = {} THEN s
  ELSE LET i == Min(BlockStarts(s))
           q == Max(ClosersAfter(s, i))
       IN SubSeq(s, LastNewlineOfRun(s, i), q - 1)

\* programmer_agent returns clean_code(backend.chat_completion(...))
programmer_agent(response) == clean_code(response)
\* test_designer_agent returns clean_code(backend.chat_completion(...))
test_designer_agent(response) == clean_code(response)

\* what the backend may answer to a programmer prompt (already stripped)
ProgrammerResponses ==
  { <<>>,
    <<"c">>,
    <<"F", "n", "c", "n", "F">>,
    <<"c", "n", "n", "S", "n", "n", "t">> }
\* what the backend may answer to the test designer prompt
TestResponses ==
  { <<"t">>,
    <<"F", "n", "t", "n", "F">> }

\* ------------------------------------------------------------ file names
\* target/coder_agent/<base>[_retry_<retry>][_types_retry_<types>] + kind
FileName(b, j, k, kd) == [base |-> b, retry |-> j, types |-> k, kind |-> kd]
CodePy == FileName("code", 0, 0, "py")
None == FileName("none", 0, 0, "none")
\* orig_code_file.with_stem(orig_code_file.stem + f"_types_retry_{tries}")
with_types_retry(f, t) == [f EXCEPT !.types = t]
orig_of(f) == [f EXCEPT !.types = 0]
\* code_file.with_name(code_file.stem + "_type_errors.txt")
type_errors_file(f) == [f EXCEPT !.kind = "type_errors"]
\* code_with_tests_file.with_name(code_with_tests_file.stem + "_errors.txt")
errors_file(f) == [f EXCEPT !.kind = "errors"]
\* orig_code_file.stem + "_with_tests" + (f"_retry_{tries}" if tries > 0 else "")
with_tests_file(t) == FileName("code_with_tests", t, 0, "py")

\* open(f, "w"): one more write of file f
Write(w, f) ==
  IF f \in DOMAIN w
  THEN [w EXCEPT ![f] = IF @ < MaxHist THEN @ + 1 ELSE @]
  ELSE w @@ (f :> 1)

\* ------------------------------------------------------- loop arithmetic
next_tries_stuck(t) == t
\* tries += 1
next_tries(t) == t + 1
while_guard_one_more(t, n) == t <= n + 1
\* while tries <= max_retries
while_guard(t, n) == t <= n
break_guard_early(t, n) == t >= n
\* if tries > max_retries: break
break_guard(t, n) == t > n
type_check_catches_all(exc) == TRUE
\* except subprocess.CalledProcessError, in type_check_and_correct
type_check_catches(exc) == exc = "CalledProcessError"
\* except subprocess.CalledProcessError, in run_tests_and_correct
tests_catch(exc) == exc = "CalledProcessError"
type_check_return_always(passed, f) == f
\* type_check_and_correct returns code_file after a pass, None otherwise
type_check_return(passed, f) == IF passed THEN f ELSE None
\* run_tests_and_correct returns code after the tests passed
tests_return(cd, tst) == cd
FallbackArtifact_stripped(artifact, tst) == Join(artifact, strip(tst))
\* the fallback of the split: code_with_tests = code + joiner + test_code
FallbackArtifact(artifact, tst) == Join(artifact, tst)

Stages == {"static1", "static2", "dynamic"}
StaticStages == {"static1", "static2"}
Record(h, v) == IF Len(h) < MaxHist THEN Append(h, v) ELSE h
Count(n) == IF n < MaxHist THEN n + 1 ELSE n

NoCall == [op |-> "none"]
NoVerdict == [verifier |-> "none", passed |-> FALSE, file |-> None, text |-> <<>>]
NoResult == [stage |-> "none", file |-> None, text |-> <<>>]
Running == [kind |-> "running", stage |-> "none", attempts |-> 0]

VARIABLES
  pc,                   \* where the run stands
  max_retries,          \* the retry budget N
  code, test_code, code_with_tests,   \* locals of run_tests_and_correct
  code_file,            \* run_tests_and_correct's code_file
  code_with_tests_file, \* run_tests_and_correct's code_with_tests_file
  tc_code_file,         \* type_check_and_correct's code_file
  file_text,            \* text of the file under verification
  tries,                \* tries of run_tests_and_correct
  tc_tries,             \* tries of type_check_and_correct
  writes,               \* file name -> number of writes
  verdicts,             \* stage -> verdicts of the current stage instance
  repairs,              \* stage -> programmer_agent calls of the instance
  lastVerdict,          \* the most recent verifier invocation
  stage_result,         \* the most recent stage result
  genFailure,           \* some model response of the run was empty
  stubSource,           \* the file stubgen ran on
  splitParts,           \* number of parts of the most recent split
  outcome,              \* how the run ended
  result,               \* value returned by run_tests_and_correct
  infraError,           \* a tool could not be launched, or stubgen failed
  pure                  \* a text function applied on its own, outside a run

vars == <<pc, max_retries, code, test_code, code_with_tests, code_file,
          code_with_tests_file, tc_code_file, file_text, tries, tc_tries,
          writes, verdicts, repairs, lastVerdict, stage_result, genFailure,
          stubSource, splitParts, outcome, result, infraError, pure>>

Init ==
  /\ pc = "generate"
  /\ max_retries \in 0..MaxRetries
  /\ code = <<>>
  /\ test_code = <<>>
  /\ code_with_tests = <<>>
  /\ code_file = None
  /\ code_with_tests_file = None
  /\ tc_code_file = None
  /\ file_text = <<>>
  /\ tries = 0
  /\ tc_tries = 0
  /\ writes = <<>>
  /\ verdicts = [s \in Stages |-> <<>>]
  /\ repairs = [s \in Stages |-> 0]
  /\ lastVerdict = NoVerdict
  /\ stage_result = NoResult
  /\ genFailure = FALSE
  /\ stubSource = None
  /\ splitParts = 0
  /\ outcome = Running
  /\ result = <<>>
  /\ infraError = FALSE
  /\ pure = NoCall

\* run(), lines 266-281: the programmer writes code, saved as code.py
Generate(r) ==
  /\ pc = "generate"
  /\ UNCHANGED <<infraError, pure>>
  /\ code' = programmer_agent(r)
  /\ code_file' = CodePy
  /\ file_text' = code'
  /\ writes' = Write(writes, CodePy)
  /\ genFailure' = (genFailure \/ r = <<>>)
  /\ pc' = "test_design"
  /\ UNCHANGED <<max_retries, test_code, code_with_tests, code_with_tests_file,
                 tc_code_file, tries, tc_tries, verdicts, repairs, lastVerdict,
                 stage_result, stubSource, splitParts, outcome, result>>

\* run() line 282 and run_tests_and_correct lines 165-167: stubgen on
\* code.py, the test designer writes tests, the first type check starts
TestDesign(r) ==
  /\ pc = "test_design"
  /\ UNCHANGED <<infraError, pure>>
  /\ stubSource' = code_file
  /\ test_code' = test_designer_agent(r)
  /\ genFailure' = (genFailure \/ r = <<>>)
  /\ tc_code_file' = code_file
  /\ tc_tries' = 0
  /\ pc' = "static1"
  /\ UNCHANGED <<max_retries, code, code_with_tests, code_file,
                 code_with_tests_file, file_text, tries, writes, verdicts,
                 repairs, lastVerdict, stage_result, splitParts, outcome,
                 result>>

\* a stage gave up: type_check_and_correct returned None (lines 101, 170,
\* 193) or the test loop broke (line 228); run() returns ""
StaticFailed(stage, t, f, txt, w, v, rp) ==
  /\ pc' = "done"
  /\ outcome' = [kind |-> "failure", stage |-> stage, attempts |-> t]
  /\ result' = <<>>
  /\ tc_tries' = t
  /\ tc_code_file' = f
  /\ file_text' = txt
  /\ writes' = w
  /\ verdicts' = v
  /\ repairs' = rp
  /\ UNCHANGED <<code, test_code, code_with_tests, code_file,
                 code_with_tests_file, tries, stage_result, splitParts>>

\* run_tests_and_correct lines 181-189: build the combined artifact, write
\* it and start type checking it
EnterLoop(cd, t, w, v, rp) ==
  LET cwt == Join(cd, test_code)
      f == with_tests_file(t)
  IN /\ code' = cd
     /\ code_with_tests' = cwt
     /\ code_with_tests_file' = f
     /\ tc_code_file' = f
     /\ file_text' = cwt
     /\ tries' = t
     /\ tc_tries' = 0
     /\ writes' = Write(w, f)
     /\ verdicts' = [v EXCEPT !["static2"] = <<>>]
     /\ repairs' = [rp EXCEPT !["static2"] = 0]
     /\ pc' = "static2"
     /\ UNCHANGED <<test_code, splitParts, outcome, result>>

\* run_tests_and_correct lines 167-178: the first type check returned c,
\* whose text is txt; f is the last file type_check_and_correct wrote
TypeChecked1(c, f, t, txt, w, v, rp) ==
  IF c = None
  THEN StaticFailed("static1", t, f, txt, w, v, rp)
  ELSE /\ code_file' = c
       /\ stage_result' = [stage |-> "static1", file |-> c, text |-> txt]
       /\ EnterLoop(txt, 0, w, v, rp)

\* run_tests_and_correct lines 188-206: the type check of the combined
\* artifact returned c, whose text is txt; split it, fall back when the
\* split does not give two parts, strip
TypeChecked2(c, f, t, txt, w, v, rp) ==
  IF c = None
  THEN StaticFailed("static2", t, f, txt, w, v, rp)
  ELSE LET parts == split(txt)
           ok == Len(parts) = 2
           cd == IF ok THEN parts[1] ELSE txt
           tst == IF ok THEN parts[2] ELSE test_code
           cwt == IF ok THEN txt ELSE FallbackArtifact(txt, test_code)
       IN /\ code_with_tests_file' = c
          /\ tc_code_file' = c
          /\ code_with_tests' = cwt
          /\ file_text' = cwt
          /\ writes' = IF ok THEN w ELSE Write(w, c)
          /\ code' = strip(cd)
          /\ test_code' = strip(tst)
          /\ splitParts' = Len(parts)
          /\ stage_result' = [stage |-> "static2", file |-> c, text |-> txt]
          /\ tc_tries' = t
          /\ verdicts' = v
          /\ repairs' = rp
          /\ pc' = "unittest"
          /\ UNCHANGED <<code_file, tries, outcome, result>>

TypeChecked(stage, c, f, t, txt, w, v, rp) ==
  IF stage = "static1"
  THEN TypeChecked1(c, f, t, txt, w, v, rp)
  ELSE TypeChecked2(c, f, t, txt, w, v, rp)

\* type_check_and_correct lines 57-66, 97-100: mypy passes
MypyPass ==
  /\ pc \in StaticStages
  /\ UNCHANGED <<infraError, pure>>
  /\ while_guard(tc_tries, max_retries)
  /\ lastVerdict' = [verifier |-> "mypy", passed |-> TRUE,
                     file |-> tc_code_file, text |-> file_text]
  /\ TypeChecked(pc, type_check_return(TRUE, tc_code_file), tc_code_file,
                 tc_tries, file_text, writes,
                 [verdicts EXCEPT ![pc] = Record(@, TRUE)], repairs)
  /\ UNCHANGED <<max_retries, genFailure, stubSource>>

\* type_check_and_correct lines 57-96, 101: mypy fails, the errors are
\* written, the programmer is asked for new code, which is written to the
\* next _types_retry_ file; then the loop condition is tested again
MypyCaught(r) ==
  /\ pc \in StaticStages
  /\ UNCHANGED pure
  /\ while_guard(tc_tries, max_retries)
  /\ LET t == next_tries(tc_tries)
         new_code == programmer_agent(r)
         newf == with_types_retry(orig_of(tc_code_file), t)
         w == Write(Write(writes, type_errors_file(tc_code_file)), newf)
         v == [verdicts EXCEPT ![pc] = Record(@, FALSE)]
         rp == [repairs EXCEPT ![pc] = Count(@)]
     IN /\ lastVerdict' = [verifier |-> "mypy", passed |-> FALSE,
                           file |-> tc_code_file, text |-> file_text]
        /\ genFailure' = (genFailure \/ r = <<>>)
        /\ IF while_guard(t, max_retries)
           THEN /\ tc_tries' = t
                /\ tc_code_file' = newf
                /\ file_text' = new_code
                /\ writes' = w
                /\ verdicts' = v
                /\ repairs' = rp
                /\ UNCHANGED <<pc, code, test_code, code_with_tests, code_file,
                               code_with_tests_file, tries, stage_result,
                               splitParts, outcome, result>>
           ELSE TypeChecked(pc, type_check_return(FALSE, newf), newf, t,
                            new_code, w, v, rp)
  /\ UNCHANGED <<max_retries, stubSource>>

MypyFail(r) ==
  /\ MypyCaught(r)
  /\ UNCHANGED infraError

\* an exception nothing catches ends run() with a traceback
Crash(stage) ==
  /\ infraError' = TRUE
  /\ pc' = "done"
  /\ outcome' = [kind |-> "error", stage |-> stage, attempts |-> 0]
  /\ UNCHANGED <<max_retries, code, test_code, code_with_tests, code_file,
                 code_with_tests_file, tc_code_file, file_text, tries,
                 tc_tries, writes, verdicts, repairs, lastVerdict,
                 stage_result, genFailure, splitParts, result, pure>>

\* test_designer_agent lines 113-118: stubgen cannot be launched
\* (FileNotFoundError) or exits with an error (check=True raises
\* CalledProcessError); no handler is around the call
StubgenFails ==
  /\ pc = "test_design"
  /\ stubSource' = code_file
  /\ Crash("stub")

\* type_check_and_correct lines 59-67: mypy cannot be launched; the
\* FileNotFoundError meets the except clause of line 67
MypyCannotLaunch ==
  /\ pc \in StaticStages
  /\ while_guard(tc_tries, max_retries)
  /\ IF type_check_catches("FileNotFoundError")
     THEN /\ infraError' = TRUE
          /\ \E r \in ProgrammerResponses : MypyCaught(r)
     ELSE /\ Crash(pc)
          /\ UNCHANGED stubSource

\* run_tests_and_correct lines 208-216: python cannot be launched; the
\* FileNotFoundError is not what the except clause of line 216 catches
UnittestCannotLaunch ==
  /\ pc = "unittest"
  /\ ~tests_catch("FileNotFoundError")
  /\ Crash("dynamic")
  /\ UNCHANGED stubSource

\* run_tests_and_correct lines 207-215, 256-261: the tests pass
UnittestPass ==
  /\ pc = "unittest"
  /\ UNCHANGED <<infraError, pure>>
  /\ lastVerdict' = [verifier |-> "unittest", passed |-> TRUE,
                     file |-> code_with_tests_file, text |-> file_text]
  /\ verdicts' = [verdicts EXCEPT !["dynamic"] = Record(@, TRUE)]
  /\ stage_result' = [stage |-> "dynamic", file |-> code_with_tests_file,
                      text |-> tests_return(code, test_code)]
  /\ result' = tests_return(code, test_code)
  /\ outcome' = [kind |-> "success", stage |-> "dynamic", attempts |-> tries]
  /\ pc' = "done"
  /\ UNCHANGED <<max_retries, code, test_code, code_with_tests, code_file,
                 code_with_tests_file, tc_code_file, file_text, tries,
                 tc_tries, writes, repairs, genFailure, stubSource,
                 splitParts>>

\* run_tests_and_correct lines 216-228: the tests fail and the budget is
\* used up
UnittestFailBreak ==
  /\ pc = "unittest"
  /\ UNCHANGED <<infraError, pure>>
  /\ break_guard(next_tries(tries), max_retries)
  /\ tries' = next_tries(tries)
  /\ lastVerdict' = [verifier |-> "unittest", passed |-> FALSE,
                     file |-> code_with_tests_file, text |-> file_text]
  /\ verdicts' = [verdicts EXCEPT !["dynamic"] = Record(@, FALSE)]
  /\ writes' = Write(writes, errors_file(code_with_tests_file))
  /\ outcome' = [kind |-> "failure", stage |-> "dynamic", attempts |-> tries']
  /\ result' = <<>>
  /\ pc' = "done"
  /\ UNCHANGED <<max_retries, code, test_code, code_with_tests, code_file,
                 code_with_tests_file, tc_code_file, file_text, tc_tries,
                 repairs, stage_result, genFailure, stubSource, splitParts>>

\* run_tests_and_correct lines 216-255 and 179-189: the tests fail, the
\* programmer is asked for new code, and the loop starts over
UnittestFailRepair(r) ==
  /\ pc = "unittest"
  /\ UNCHANGED <<infraError, pure>>
  /\ ~break_guard(next_tries(tries), max_retries)
  /\ lastVerdict' = [verifier |-> "unittest", passed |-> FALSE,
                     file |-> code_with_tests_file, text |-> file_text]
  /\ genFailure' = (genFailure \/ r = <<>>)
  /\ EnterLoop(programmer_agent(r), next_tries(tries),
               Write(writes, errors_file(code_with_tests_file)),
               [verdicts EXCEPT !["dynamic"] = Record(@, FALSE)],
               [repairs EXCEPT !["dynamic"] = Count(@)])
  /\ UNCHANGED <<max_retries, code_file, stage_result, stubSource>>

\* the steps in which every external call returns; MypyFail stands before
\* MypyPass: both are enabled in the same states and the enabling condition
\* of MypyFail is the cheaper one to evaluate
Returning ==
  \/ \E r \in ProgrammerResponses : Generate(r)
  \/ \E r \in TestResponses : TestDesign(r)
  \/ \E r \in ProgrammerResponses : MypyFail(r)
  \/ MypyPass
  \/ UnittestPass
  \/ UnittestFailBreak
  \/ \E r \in ProgrammerResponses : UnittestFailRepair(r)

Next ==
  \/ Returning
  \/ StubgenFails
  \/ MypyCannotLaunch
  \/ UnittestCannotLaunch

Spec == Init /\ [][Next]_vars

\* every external call returns and the run is never suspended
FairSpec == Init /\ [][Returning]_vars /\ WF_vars(Returning)

\* ------------------------------------------- text functions on their own
runVars == <<pc, max_retries, code, test_code, code_with_tests, code_file,
             code_with_tests_file, tc_code_file, file_text, tries, tc_tries,
             writes, verdicts, repairs, lastVerdict, stage_result, genFailure,
             stubSource, splitParts, outcome, result, infraError>>

\* no run is going on
NoRun ==
  /\ pc = "none"
  /\ max_retries = 0
  /\ code = <<>>
  /\ test_code = <<>>
  /\ code_with_tests = <<>>
  /\ code_file = None
  /\ code_with_tests_file = None
  /\ tc_code_file = None
  /\ file_text = <<>>
  /\ tries = 0
  /\ tc_tries = 0
  /\ writes = <<>>
  /\ verdicts = [s \in Stages |-> <<>>]
  /\ repairs = [s \in Stages |-> 0]
  /\ lastVerdict = NoVerdict
  /\ stage_result = NoResult
  /\ genFailure = FALSE
  /\ stubSource = None
  /\ splitParts = 0
  /\ outcome = Running
  /\ result = <<>>
  /\ infraError = FALSE

\* every text of at most len tokens of the alphabet
Texts(alphabet, len) == UNION {[1..k -> alphabet] : k \in 0..len}

\* clean_code applied to any text of fences, newlines and characters, and
\* then applied to its own result
CleanInit ==
  /\ NoRun
  /\ pure \in {[op |-> "input", in |-> x] : x \in Texts({"F", "n", "c"}, MaxCleanLen)}

CleanOnce ==
  /\ pure.op = "input"
  /\ pure' = [op |-> "cleaned", in |-> pure.in, once |-> clean_code(pure.in)]
  /\ UNCHANGED runVars

CleanTwice ==
  /\ pure.op = "cleaned"
  /\ pure' = [op |-> "cleaned_twice", in |-> pure.in, once |-> pure.once,
              twice |-> clean_code(pure.once)]
  /\ UNCHANGED runVars

CleanNext == CleanOnce \/ CleanTwice

CleanSpec == CleanInit /\ [][CleanNext]_vars

\* the split of run_tests_and_correct applied to any text of characters,
\* newlines and separators, and the parts joined again
SplitInit ==
  /\ NoRun
  /\ pure \in {[op |-> "artifact", in |-> x] :
                 x \in Texts({"c", "n", "S"}, MaxArtifactLen)}

\* lines 197-206: [code, test_code] = code_with_tests.split(separator),
\* ValueError unless there are two parts; then both parts are stripped
SplitStep ==
  /\ pure.op = "artifact"
  /\ LET parts == split(pure.in)
     IN pure' = IF Len(parts) = 2
                THEN [op |-> "split", in |-> pure.in,
                      code |-> strip(parts[1]), test_code |-> strip(parts[2])]
                ELSE [op |-> "ValueError", in |-> pure.in]
  /\ UNCHANGED runVars

\* line 181: code + "\n\n" + test_code_separator + "\n\n" + test_code
RejoinStep ==
  /\ pure.op = "split"
  /\ pure' = [op |-> "rejoined", in |-> pure.in, code |-> pure.code,
              test_code |-> pure.test_code,
              out |-> Join(pure.code, pure.test_code)]
  /\ UNCHANGED runVars

SplitNext == SplitStep \/ RejoinStep

SplitSpec == SplitInit /\ [][SplitNext]_vars

\* ------------------------------------------------------------ properties
Last(h) == h[Len(h)]
NoStaticFailure == \A f \in DOMAIN writes : f.kind # "type_errors"
\* the text after the first separator and the joiner's two newlines
TestPart(s) == SubSeq(s, Min(SepPositions(s)) + 3, Len(s))

\* C1: in every stage instance the number of programmer_agent repairs is at
\* most the retry budget max_retries.
RepairsWithinBudget == \A s \in Stages : repairs[s] <= max_retries

\* C2: in every stage instance the stage's verifier (mypy in one call of
\* type_check_and_correct, unittest in the test loop) is invoked at most
\* max_retries + 1 times.
VerifierCallsWithinBudget ==
  \A s \in Stages : Len(verdicts[s]) <= max_retries + 1
\* a budget of at least one is used up to the last verifier call, in the
\* test loop and in the type check nested in it
VerifierCallsWitness ==
  /\ max_retries >= 1
  /\ Len(verdicts["dynamic"]) = max_retries + 1
  /\ Len(verdicts["static2"]) = max_retries + 1

\* C3: a stage result is produced only in the step in which the stage's
\* verifier passed, and it is the candidate the verifier judged: the file
\* and text mypy passed, or code contained in the text unittest passed.
StageDoneAfterPass ==
  [][stage_result' # stage_result =>
       LET st == stage_result'.stage
       IN /\ Len(verdicts'[st]) = Len(verdicts[st]) + 1
          /\ Last(verdicts'[st])
          /\ lastVerdict'.passed
          /\ lastVerdict'.verifier = (IF st = "dynamic" THEN "unittest" ELSE "mypy")
          /\ lastVerdict'.file = stage_result'.file
          /\ IF st = "dynamic"
             THEN Contains(lastVerdict'.text, stage_result'.text)
             ELSE lastVerdict'.text = stage_result'.text]_vars
\* the tests passed on a combined artifact that needed a type repair
StageDoneWitness ==
  /\ stage_result.stage = "dynamic"
  /\ repairs["static2"] > 0
  /\ outcome.kind = "success"

\* C4: the stub is extracted and the tests are designed only after the
\* first static stage has passed, from the file that stage returned.
TestsAfterStaticPass ==
  stubSource # None =>
    /\ verdicts["static1"] # <<>>
    /\ Last(verdicts["static1"])
    /\ stubSource = code_file

\* C5: when mypy fails on every attempt of the first static stage the run
\* fails in that stage with attempts_used = max_retries and unittest is
\* never invoked.
StaticExhaustedAttempts ==
  (outcome.kind = "failure" /\ outcome.stage = "static1") =>
    /\ outcome.attempts = max_retries
    /\ repairs["static1"] = max_retries
    /\ verdicts["dynamic"] = <<>>

\* C6: with a budget of at least one, no mypy failure, every tool
\* launched, and a first unittest failure, the run goes on to a second unittest; when that one passes the
\* run is a success after exactly one retry and one repair of the test loop.
ScenarioA ==
  (/\ max_retries >= 1
   /\ ~infraError
   /\ NoStaticFailure
   /\ verdicts["dynamic"] # <<>>
   /\ ~verdicts["dynamic"][1]) =>
    /\ Len(verdicts["dynamic"]) = 1 =>
         /\ outcome.kind = "running"
         /\ repairs["dynamic"] = 1
    /\ verdicts["dynamic"] = <<FALSE, TRUE>> =>
         /\ pc = "done"
         /\ outcome.kind = "success"
         /\ outcome.attempts = 1
         /\ repairs["dynamic"] = 1
         /\ result = code
ScenarioAWitness ==
  /\ max_retries >= 1
  /\ NoStaticFailure
  /\ verdicts["dynamic"] = <<FALSE, TRUE>>

\* C7: once the model has returned an empty response no verifier is
\* invoked any more.
NoVerifierAfterEmptyResponse ==
  [][genFailure => lastVerdict' = lastVerdict]_vars

\* C8: every run comes to an end, with a success or with a failure.
Termination == <>(pc = "done" /\ outcome.kind \in {"success", "failure"})
\* a run that ended in the type check nested in the second round of the
\* test loop
TerminationWitness ==
  /\ pc = "done"
  /\ outcome.stage = "static2"
  /\ tries > 0

\* C9: the value returned after the tests passed contains the code and the
\* test text of the artifact that passed.
ResultHasCodeAndTests ==
  outcome.kind = "success" =>
    /\ Contains(result, code)
    /\ Contains(result, test_code)

\* C10: when the artifact returned by the type check of the combined
\* artifact has no separator, the artifact is taken as the code and the
\* rebuilt artifact is it, the joiner, and the test text held before.
FallbackKeepsTests ==
  [][(/\ pc = "static2"
      /\ pc' = "unittest"
      /\ SepPositions(stage_result'.text) = {}) =>
       /\ file_text' = stage_result'.text \o Joiner \o test_code
       /\ TestPart(file_text') = test_code
       /\ code_with_tests' = file_text'
       /\ code' = strip(stage_result'.text)]_vars
\* the fallback was taken on an artifact without separator while the test
\* text still had its surrounding newlines
FallbackWitness ==
  /\ pc = "unittest"
  /\ splitParts = 1
  /\ TestPart(file_text) # strip(TestPart(file_text))

\* s has no whitespace at either end
Trimmed(s) == s = <<>> \/ (s[1] # "n" /\ s[Len(s)] # "n")
\* a is some trimmed code, the joiner, and some trimmed test text
JoinedFromTrimmed(a) ==
  \E i \in SepPositions(a) :
    /\ i >= 3
    /\ i + 2 <= Len(a)
    /\ SubSeq(a, i - 2, i + 2) = Joiner
    /\ Trimmed(SubSeq(a, 1, i - 3))
    /\ Trimmed(SubSeq(a, i + 3, Len(a)))

\* C11 as stated: an artifact with exactly one separator, split and joined
\* again, is the original artifact.
RoundTrip == pure.op = "rejoined" => pure.out = pure.in
\* C11 amended: an artifact with exactly one separator, split, stripped and
\* joined again, is the original artifact exactly when the original is
\* trimmed code, the joiner and trimmed test text.
RoundTripWhenTrimmed ==
  pure.op = "rejoined" =>
    /\ Cardinality(SepPositions(pure.in)) = 1
    /\ (pure.out = pure.in) <=> JoinedFromTrimmed(pure.in)
\* a non-empty code and a non-empty test text come back unchanged
RoundTripWitness ==
  /\ pure.op = "rejoined"
  /\ pure.out = pure.in
  /\ pure.code # <<>>
  /\ pure.test_code # <<>>

\* C12: clean_code applied twice gives what clean_code applied once gives.
CleanIdempotent == pure.op = "cleaned_twice" => pure.twice = pure.once

\* C14: an infrastructure error ends the run in the same step with an error
\* outcome, without a verdict, a repair, a counted attempt or a written
\* file, and no step follows it.
InfraErrorFatal ==
  /\ [](infraError => (pc = "done" /\ outcome.kind = "error"))
  /\ [][/\ ~infraError
        /\ infraError' =>
             UNCHANGED <<verdicts, repairs, lastVerdict, tries, tc_tries,
                         writes, genFailure, result>>]_vars
\* mypy could not be launched for the type check nested in the second round
\* of the test loop
InfraErrorWitness ==
  /\ infraError
  /\ outcome.stage = "static2"
  /\ tries > 0

\* C15: no file of the run is written a second time.
NoFileWrittenTwice == \A f \in DOMAIN writes : writes[f] = 1

\* C16: the text unittest is about to run on is the text of the same file
\* on which the most recent mypy invocation passed.
UnittestOnTypeCheckedText ==
  pc = "unittest" =>
    /\ lastVerdict.verifier = "mypy"
    /\ lastVerdict.passed
    /\ lastVerdict.file = code_with_tests_file
    /\ lastVerdict.text = file_text

\* a verifier is invoked in this step
VerifierInvoked == lastVerdict' # lastVerdict

\* C17 as stated: once unittest has been invoked, every later verifier
\* invocation is a unittest invocation.
StaticNeverAfterDynamic ==
  [][(verdicts["dynamic"] # <<>> /\ VerifierInvoked) =>
       lastVerdict'.verifier = "unittest"]_vars
\* C17 amended: the first static stage comes before everything else; every
\* unittest invocation directly follows a passed mypy on the combined
\* artifact of the same round; a dynamic repair starts the next round, at
\* most max_retries of them, with the type check of the new combined
\* artifact and its tries back at 0.
RoundsTypeCheckAgain ==
  /\ [](pc = "static1" => (verdicts["static2"] = <<>> /\ verdicts["dynamic"] = <<>>))
  /\ [][(VerifierInvoked /\ lastVerdict'.verifier = "unittest") =>
          /\ lastVerdict.verifier = "mypy"
          /\ lastVerdict.passed
          /\ lastVerdict.file.base = "code_with_tests"
          /\ lastVerdict.file.retry = tries]_vars
  /\ [][(pc = "unittest" /\ pc' = "static2") =>
          /\ tries' = tries + 1
          /\ tries' <= max_retries
          /\ tc_tries' = 0
          /\ tc_code_file' = with_tests_file(tries')
          /\ verdicts'["static2"] = <<>>]_vars
\* unittest runs a second time, after the combined artifact of the second
\* round needed a type repair
RoundsWitness ==
  /\ Len(verdicts["dynamic"]) = 2
  /\ repairs["static2"] > 0
  /\ tries = 1

\* C18: the test text of the combined artifact built by a dynamic repair is
\* the test text of the artifact unittest just failed.
DynamicRepairKeepsTests ==
  [][(pc = "unittest" /\ pc' = "static2") =>
       strip(TestPart(file_text')) = strip(TestPart(file_text))]_vars

\* C19: the artifact handed to unittest holds the separator exactly once,
\* the code before it and the test text once after it.
OneSeparatorAtUnittest ==
  pc = "unittest" =>
    /\ Cardinality(SepPositions(file_text)) = 1
    /\ strip(TestPart(file_text)) = test_code

====
